---- MODULE Spec2Model ----
(* The order-placement and inventory engine of streamlit_app.py: every     *)
(* Streamlit session runs the script in its own thread, and all of them    *)
(* share ONE sqlite3 connection (get_db_connection is an st.cache_resource)*)
(* and therefore one transaction.  db is what that connection reads and    *)
(* writes, disk is what has been committed.  A step of the model is one    *)
(* SQL statement (or one commit / rollback) of one session, together with  *)
(* the session-local code around it.                                       *)
EXTENDS Integers, FiniteSets, Sequences, TLC

\* ---------------------------------------------------------------- bounds
MaxQty == 1          \* largest quantity typed into a quantity input
MaxStock == 2        \* "Add to Current Stock" is not offered above this stock
MaxVersion == 2      \* add / remove are not offered once cart_version is here
MaxAttempts == 2     \* commit attempts (INSERT INTO ORDERS) in one behaviour
MaxSaves == 1        \* admin "Save Inventory Item" submissions
MaxFaults == 1       \* storage faults injected into the checkout commit
MaxPrice == 3        \* largest selling price / cost typed by the admin

\* ------------------------------------------------------------- universes
Sessions == {1, 2}                    \* customer browser sessions
Users == {"u1", "u2"}                 \* rows of USERS with role customer
Items == {1, 2}                       \* INVENTORY ids
NoUser == "none"                      \* st.session_state.username = None
Qtys == 1 .. MaxQty
Prices == 1 .. MaxPrice
\* a wheel that also holds a full refund
SpinRatesWithFree == {0, 5, 10, 15, 20, 100}
SpinRates == {0, 5, 10, 15, 20}       \* discounts of the wheel, in percent

\* ------------------------------------------------------------- variables
VARIABLES
    db,       \* the database as the shared connection sees it
    disk,     \* the database as committed
    cache,    \* st.cache_data of get_user_cart: <<user, cart_version>> -> rows
    ss,       \* st.session_state of each session
    run,      \* where each session's script run stands, and its locals
    adm,      \* the admin session's inventory form run
    g         \* history: attempts started, saves, faults, what attempts did

vars == <<db, disk, cache, ss, run, adm, g>>

\* ------------------------------------------------------------- helpers
MinOf(S) == CHOOSE x \in S : \A y \in S : x <= y

RECURSIVE Subtotal(_)
\* cart_df['Subtotal'].sum(): sum of selling_price * cart_quantity (601-604)
Subtotal(df) ==
    IF df = {} THEN 0
    ELSE LET r == CHOOSE x \in df : TRUE
         IN  r.price * r.qty + Subtotal(df \ {r})

\* total of lines 640-644 and 667, in hundredths of a price unit:
\* total_pre_discount, less total_pre_discount * discount_rate when rate > 0
OrderTotal(df, rate) ==
    IF rate > 0 THEN Subtotal(df) * 100 - Subtotal(df) * rate
    ELSE Subtotal(df) * 100

\* ------------------------------------------------------------- database
\* INVENTORY rows as a database holds them when the application starts
\* (item 1 down to its last unit); by: the attempts whose decrement the stock
\* value carries (history)
InitInv ==
    [i \in Items |->
        [stock |-> IF i = 1 THEN 1 ELSE 2, cost |-> 1, price |-> 2, by |-> {}]]

\* the schema of lines 91-145: INVENTORY, CART, ORDERS, ORDER_ITEMS and the
\* AUTOINCREMENT counters of sqlite_sequence; gone: the CART rows a checkout
\* attempt deleted (history, committed and rolled back with the rest)
InitDb ==
    [inv |-> InitInv, cart |-> {}, orders |-> {}, items |-> {},
     seqCart |-> 0, seqOrders |-> 0, gone |-> {}]

\* the SELECT of get_user_cart (489-499): CART joined with INVENTORY
CartQuery(d, u) ==
    {[cid |-> r.id, inv |-> r.inv, qty |-> r.qty, price |-> d.inv[r.inv].price] :
        r \in {x \in d.cart : x.user = u}}

\* get_user_cart(user_id, cart_version) behind st.cache_data (485-486): the
\* rows cached under the key if there are any, else the query's
GetUserCart(u, v) ==
    IF <<u, v>> \in DOMAIN cache THEN cache[<<u, v>>] ELSE CartQuery(db, u)

\* the cache after that call
CacheFilled(u, v) ==
    IF <<u, v>> \in DOMAIN cache THEN cache
    ELSE cache @@ (<<u, v>> :> CartQuery(db, u))

\* ------------------------------------------------------------- sessions
\* st.session_state.setdefault(...) of lines 21-37
InitSession ==
    [user |-> NoUser, stage |-> "catalog", sub |-> "None", coupon |-> "None",
     rate |-> 0, ver |-> 0, total |-> 0, addr |-> "", tag |-> 0]

NoInfo == [stock |-> 0, cost |-> 0, price |-> 0, by |-> {}]

\* a session whose script is not running: the page is displayed
\* df: cart_df_for_order; todo: its lines still to come; stock0: the stock
\* when the commit started and why: what was raised (both history)
IdleRun ==
    [pc |-> "idle", df |-> {}, todo |-> {}, inv |-> 0, qty |-> 0,
     info |-> NoInfo, oid |-> 0, att |-> 0, cont |-> FALSE,
     stock0 |-> [i \in Items |-> 0], why |-> ""]

InitAdm == [pc |-> "idle", inv |-> 0, stock |-> 0, cost |-> 0, price |-> 0, by |-> {}]

InitG == [natt |-> 0, nsave |-> 0, nfault |-> 0, log |-> << >>]

Init ==
    /\ db = InitDb
    /\ disk = InitDb
    /\ cache = << >>
    /\ ss = [s \in Sessions |-> InitSession]
    /\ run = [s \in Sessions |-> IdleRun]
    /\ adm = InitAdm
    /\ g = InitG

LoggedIn(s) == ss[s].user # NoUser
Idle(s) == run[s].pc = "idle"

\* another process issued a statement that changes the database while the
\* attempts of the other sessions run: they no longer run alone (history)
Touched(log, s) ==
    [a \in DOMAIN log |->
        IF log[a].res = "running" /\ log[a].s # s
        THEN [log[a] EXCEPT !.alone = FALSE] ELSE log[a]]

Touch(s) == [g EXCEPT !.log = Touched(g.log, s)]

\* ------------------------------------------------------------- page events
\* Every script run of a logged-in customer starts with the sidebar's
\* get_user_cart (1048), so every event below fills the cache under the
\* session's current key.

\* the login form (244-251) and the rerun it asks for
Login(s, u) ==
    /\ Idle(s) /\ ~LoggedIn(s)
    /\ ss' = [ss EXCEPT ![s].user = u]
    /\ cache' = CacheFilled(u, ss[s].ver)
    /\ run' = [run EXCEPT ![s].cont = FALSE]
    /\ UNCHANGED <<db, disk, adm, g>>

\* logout (225-235): checkout_substage, cart_version, order_total and
\* shipping_address stay in the session; st.cache_data.clear() empties the
\* cache of every session
Logout(s) ==
    /\ Idle(s) /\ LoggedIn(s)
    /\ ss' = [ss EXCEPT ![s].user = NoUser, ![s].stage = "catalog",
                        ![s].coupon = "None", ![s].rate = 0]
    /\ cache' = << >>
    /\ run' = [run EXCEPT ![s].cont = FALSE]
    /\ UNCHANGED <<db, disk, adm, g>>

\* the sidebar's Catalog and User Profile buttons (1039-1044) while in checkout
Nav(s) ==
    /\ Idle(s) /\ LoggedIn(s) /\ ss[s].stage = "payment"
    /\ ss' = [ss EXCEPT ![s].stage = "catalog"]
    /\ cache' = CacheFilled(ss[s].user, ss[s].ver)
    /\ run' = [run EXCEPT ![s].cont = FALSE]
    /\ UNCHANGED <<db, disk, adm, g>>

\* "Proceed to Checkout" (1050-1062), shown when the cart looked up is not empty
Proceed(s) ==
    /\ Idle(s) /\ LoggedIn(s)
    /\ GetUserCart(ss[s].user, ss[s].ver) # {}
    /\ ss' = [ss EXCEPT ![s].stage = "payment", ![s].sub = "payment_form",
                        ![s].coupon = "None", ![s].rate = 0]
    /\ cache' = CacheFilled(ss[s].user, ss[s].ver)
    /\ run' = [run EXCEPT ![s].cont = FALSE]
    /\ UNCHANGED <<db, disk, adm, g>>

\* "Go to Catalog" of the empty-cart page (590-596)
GoCatalog(s) ==
    /\ Idle(s) /\ LoggedIn(s) /\ ss[s].stage = "payment"
    /\ GetUserCart(ss[s].user, ss[s].ver) = {}
    /\ ss' = [ss EXCEPT ![s].stage = "catalog"]
    /\ cache' = CacheFilled(ss[s].user, ss[s].ver)
    /\ run' = [run EXCEPT ![s].cont = FALSE]
    /\ UNCHANGED <<db, disk, adm, g>>

\* the payment form is on the page: checkout, cart not empty, not delivered
OnPaymentForm(s) ==
    /\ Idle(s) /\ LoggedIn(s) /\ ss[s].stage = "payment"
    /\ ss[s].sub # "delivered"
    /\ GetUserCart(ss[s].user, ss[s].ver) # {}

\* the wheel is offered while coupon_code is None or "NONE" (636-638)
SpinOffered(coupon) == coupon \in {"None", "NONE"}

\* spin_the_wheel_logic (561-585) with the option drawn
Spin(s, r) ==
    /\ OnPaymentForm(s)
    /\ SpinOffered(ss[s].coupon)
    /\ ss' = [ss EXCEPT ![s].coupon = IF r > 0 THEN "SPIN" ELSE "NONE",
                        ![s].rate = IF r > 0 THEN r ELSE 0]
    /\ cache' = CacheFilled(ss[s].user, ss[s].ver)
    /\ UNCHANGED <<db, disk, run, adm, g>>

\* a payment form that takes the address as it is typed, empty or not
SubmitUnchecked(s, a) ==
    /\ OnPaymentForm(s)
    /\ g.natt < MaxAttempts
    /\ cache' = CacheFilled(ss[s].user, ss[s].ver)
    /\ ss' = [ss EXCEPT
           ![s].sub = "delivered",
           ![s].total = OrderTotal(GetUserCart(ss[s].user, ss[s].ver), ss[s].rate),
           ![s].addr = a,
           ![s].tag = g.natt]
    /\ run' = [run EXCEPT ![s].pc = "rerun"]
    /\ UNCHANGED <<db, disk, adm, g>>

\* "Process Payment & Place Order" (661-669): an empty address is refused,
\* otherwise the total on the page is stored and the script reruns
Submit(s, a) ==
    /\ OnPaymentForm(s)
    /\ g.natt < MaxAttempts
    /\ cache' = CacheFilled(ss[s].user, ss[s].ver)
    /\ IF a = ""
       THEN UNCHANGED <<ss, run>>
       ELSE /\ ss' = [ss EXCEPT
                  ![s].sub = "delivered",
                  ![s].total = OrderTotal(GetUserCart(ss[s].user, ss[s].ver),
                                          ss[s].rate),
                  ![s].addr = a,
                  ![s].tag = g.natt]
            /\ run' = [run EXCEPT ![s].pc = "rerun"]
    /\ UNCHANGED <<db, disk, adm, g>>

\* what a commit attempt is remembered by (history): its session, how it
\* ended, whether any other process changed the database while it ran,
\* whether its cart had one line, and the items whose stock check read 1 for
\* a line of quantity 1
NewAttempt(s, lines) ==
    [s |-> s, res |-> "running", alone |-> TRUE,
     single |-> Cardinality(lines) = 1, read1 |-> {}]

\* A run of the page in the delivered substage (672-679): the rerun asked by
\* Submit, or a later one (the Continue Shopping click when the button is on
\* the page, Streamlit's Rerun otherwise).  An empty cart ends it at 590-596;
\* otherwise the commit starts.
RunDelivered(s) ==
    /\ LoggedIn(s) /\ ss[s].stage = "payment" /\ ss[s].sub = "delivered"
    /\ run[s].pc \in {"rerun", "idle"}
    /\ cache' = CacheFilled(ss[s].user, ss[s].ver)
    /\ IF GetUserCart(ss[s].user, ss[s].ver) = {}
       THEN run' = [run EXCEPT ![s] = IdleRun]
       ELSE /\ g.natt < MaxAttempts
            /\ run' = [run EXCEPT ![s].pc = "cm_order",
                                  ![s].att = g.natt + 1,
                                  ![s].df = GetUserCart(ss[s].user, ss[s].ver),
                                  ![s].todo = GetUserCart(ss[s].user, ss[s].ver),
                                  ![s].stock0 = [i \in Items |-> db.inv[i].stock]]
            /\ g' = [g EXCEPT !.natt = g.natt + 1,
                              !.log = Append(g.log,
                                  NewAttempt(s, GetUserCart(ss[s].user, ss[s].ver)))]
    /\ GetUserCart(ss[s].user, ss[s].ver) = {} => UNCHANGED g
    /\ UNCHANGED <<db, disk, ss, adm>>

\* ------------------------------------------------------------- the commit
\* the row of INSERT INTO ORDERS (684-686); att and sub are history
OrdersRow(s, oid) ==
    [id |-> oid, user |-> ss[s].user, total |-> ss[s].total,
     addr |-> ss[s].addr, rate |-> ss[s].rate,
     att |-> run[s].att, sub |-> <<s, ss[s].tag>>]

\* 684-687: the order row, and c.lastrowid from the AUTOINCREMENT counter
CmOrder(s) ==
    /\ run[s].pc = "cm_order"
    /\ db' = [db EXCEPT !.orders = @ \cup {OrdersRow(s, db.seqOrders + 1)},
                        !.seqOrders = @ + 1]
    /\ run' = [run EXCEPT ![s].pc = "cm_check", ![s].oid = db.seqOrders + 1]
    /\ g' = Touch(s)
    /\ UNCHANGED <<disk, cache, ss, adm>>

\* the cart line the loop of line 690 is at: lines come in inventory order
CurrentLine(s) ==
    CHOOSE r \in run[s].todo : r.inv = MinOf({x.inv : x \in run[s].todo})

\* the stock check of line 697
\* a stock check that only rejects a stock already negative
StockOkAnyLeft(info, quantity) == quantity >= 1 => info.stock >= 0

StockOk(info, quantity) == info.stock >= quantity

\* 695-697 and 707-709: read the item, check its stock, raise if short
CmCheck(s) ==
    /\ run[s].pc = "cm_check"
    /\ LET r == CurrentLine(s)
           info == db.inv[r.inv]
           a == run[s].att
       IN  /\ run' = [run EXCEPT
                  ![s].pc = IF StockOk(info, r.qty) THEN "cm_item" ELSE "cm_rollback",
                  ![s].why = IF StockOk(info, r.qty) THEN @ ELSE "nostock",
                  ![s].info = IF StockOk(info, r.qty) THEN info ELSE NoInfo]
           /\ g' = [g EXCEPT
                  !.log[a].read1 = IF info.stock = 1 /\ r.qty = 1
                                   THEN @ \cup {r.inv} ELSE @]
    /\ UNCHANGED <<db, disk, cache, ss, adm>>

\* the row of INSERT INTO ORDER_ITEMS (701-702); att is history
\* an order line priced from the cart row (the cached join of get_user_cart)
\* instead of the INVENTORY row read at line 695
OrderItemRowCartPrice(s, r) ==
    [order |-> run[s].oid, inv |-> r.inv, qty |-> r.qty,
     price |-> r.price, cost |-> run[s].info.cost, att |-> run[s].att]

OrderItemRow(s, r) ==
    [order |-> run[s].oid, inv |-> r.inv, qty |-> r.qty,
     price |-> run[s].info.price, cost |-> run[s].info.cost, att |-> run[s].att]

CmItem(s) ==
    /\ run[s].pc = "cm_item"
    /\ db' = [db EXCEPT !.items = @ \cup {OrderItemRow(s, CurrentLine(s))}]
    /\ run' = [run EXCEPT ![s].pc = "cm_stock"]
    /\ g' = Touch(s)
    /\ UNCHANGED <<disk, cache, ss, adm>>

\* new_stock of line 705, from the stock read at line 695
NewStock(info, quantity) == info.stock - quantity

\* 705-706: UPDATE INVENTORY SET quantity_in_stock = new_stock
CmStock(s) ==
    /\ run[s].pc = "cm_stock"
    /\ LET r == CurrentLine(s)
           left == run[s].todo \ {r}
       IN  /\ db' = [db EXCEPT
                  !.inv[r.inv].stock = NewStock(run[s].info, r.qty),
                  !.inv[r.inv].by = run[s].info.by \cup {run[s].att}]
           /\ run' = [run EXCEPT
                  ![s].pc = IF left = {} THEN "cm_clear" ELSE "cm_check",
                  ![s].todo = left, ![s].info = NoInfo]
    /\ g' = Touch(s)
    /\ UNCHANGED <<disk, cache, ss, adm>>

\* the rows DELETE FROM CART WHERE user_id = ? removes (557)
ClearedRows(d, u) == {x \in d.cart : x.user = u}

\* clear_user_cart, its DELETE (557)
CmClear(s) ==
    /\ run[s].pc = "cm_clear"
    /\ db' = [db EXCEPT
           !.cart = @ \ ClearedRows(db, ss[s].user),
           !.gone = @ \cup {<<run[s].att, x.id>> : x \in ClearedRows(db, ss[s].user)}]
    /\ run' = [run EXCEPT ![s].pc = "cm_commit1"]
    /\ g' = Touch(s)
    /\ UNCHANGED <<disk, cache, ss, adm>>

\* clear_user_cart, its own conn.commit() and cart_version += 1 (558-559)
CmCommit1(s) ==
    /\ run[s].pc = "cm_commit1"
    /\ disk' = db
    /\ ss' = [ss EXCEPT ![s].ver = @ + 1]
    /\ run' = [run EXCEPT ![s].pc = "cm_commit2"]
    /\ g' = Touch(s)
    /\ UNCHANGED <<db, cache, adm>>

\* conn.commit() of line 712
CmCommit2(s) ==
    /\ run[s].pc = "cm_commit2"
    /\ disk' = db
    /\ run' = [run EXCEPT ![s].pc = "cm_done"]
    /\ g' = Touch(s)
    /\ UNCHANGED <<db, cache, ss, adm>>

\* a success page that resets discount_rate and keeps coupon_code
CmDoneKeepsCoupon(s) ==
    /\ run[s].pc = "cm_done"
    /\ ss' = [ss EXCEPT
           ![s].rate = 0,
           ![s].stage = IF run[s].cont THEN "catalog" ELSE @,
           ![s].sub = IF run[s].cont THEN "None" ELSE @]
    /\ cache' = IF run[s].cont THEN CacheFilled(ss[s].user, ss[s].ver) ELSE cache
    /\ run' = [run EXCEPT ![s] = [IdleRun EXCEPT !.cont = ~run[s].cont]]
    /\ g' = [g EXCEPT !.log[run[s].att].res = "ok"]
    /\ UNCHANGED <<db, disk, adm>>

\* 714-730: the discount is reset and the success page shown; when this run
\* was started by the Continue Shopping click, the button now returns True,
\* checkout is left and the script reruns on the catalog
CmDone(s) ==
    /\ run[s].pc = "cm_done"
    /\ ss' = [ss EXCEPT
           ![s].coupon = "None", ![s].rate = 0,
           ![s].stage = IF run[s].cont THEN "catalog" ELSE @,
           ![s].sub = IF run[s].cont THEN "None" ELSE @]
    /\ cache' = IF run[s].cont THEN CacheFilled(ss[s].user, ss[s].ver) ELSE cache
    /\ run' = [run EXCEPT ![s] = [IdleRun EXCEPT !.cont = ~run[s].cont]]
    /\ g' = [g EXCEPT !.log[run[s].att].res = "ok"]
    /\ UNCHANGED <<db, disk, adm>>

\* 732-734: except Exception: st.error, conn.rollback()
CmRollback(s) ==
    /\ run[s].pc = "cm_rollback"
    /\ db' = disk
    /\ run' = [run EXCEPT ![s] = IdleRun]
    /\ g' = [g EXCEPT !.log = [Touched(g.log, s) EXCEPT
                                  ![run[s].att].res = run[s].why]]
    /\ UNCHANGED <<disk, cache, ss, adm>>

\* A storage fault: the statement the commit is at raises instead of taking
\* effect (681-712 are inside the try).  conn.commit() issues no COMMIT, and
\* so cannot fail, when the connection holds no open transaction.
CmFault(s) ==
    /\ run[s].pc \in {"cm_order", "cm_item", "cm_stock", "cm_clear",
                      "cm_commit1", "cm_commit2"}
    /\ run[s].pc \in {"cm_commit1", "cm_commit2"} => db # disk
    /\ g.nfault < MaxFaults
    /\ run' = [run EXCEPT ![s].pc = "cm_rollback", ![s].why = "fault",
                          ![s].info = NoInfo]
    /\ g' = [g EXCEPT !.nfault = @ + 1]
    /\ UNCHANGED <<db, disk, cache, ss, adm>>

\* ------------------------------------------------------------- the cart
\* add_to_cart from the product page (874, 502-514): the stock is read
AtcStock(s, i, q) ==
    /\ Idle(s) /\ LoggedIn(s) /\ ss[s].stage = "catalog"
    /\ ss[s].ver < MaxVersion
    /\ cache' = CacheFilled(ss[s].user, ss[s].ver)
    /\ run' = [run EXCEPT ![s] = [IdleRun EXCEPT
                  !.pc = "atc_cart", !.inv = i, !.qty = q,
                  !.info = [NoInfo EXCEPT !.stock = db.inv[i].stock]]]
    /\ UNCHANGED <<db, disk, ss, adm, g>>

\* the CART rows of a user for an item (517)
CartRows(d, u, i) == {x \in d.cart : x.user = u /\ x.inv = i}

\* a check that lets the cart line exceed the stock by one
FitsStockOffByOne(quantity, available) == quantity <= available + 1

\* the two checks of add_to_cart against available_stock (524, 531)
FitsStock(quantity, available) == quantity <= available

\* 517-533: the cart line is read and the new quantity checked; a refusal
\* returns without a rerun
AtcCart(s) ==
    /\ run[s].pc = "atc_cart"
    /\ LET rows == CartRows(db, ss[s].user, run[s].inv)
           new == IF rows = {} THEN run[s].qty
                  ELSE (CHOOSE x \in rows : TRUE).qty + run[s].qty
       IN  run' = [run EXCEPT ![s] =
               IF FitsStock(new, run[s].info.stock)
               THEN [@ EXCEPT !.pc = IF rows = {} THEN "atc_insert" ELSE "atc_update",
                              !.qty = new]
               ELSE IdleRun]
    /\ UNCHANGED <<db, disk, cache, ss, adm, g>>

\* UPDATE CART SET quantity = ? (528)
AtcUpdate(s) ==
    /\ run[s].pc = "atc_update"
    /\ db' = [db EXCEPT !.cart =
           {IF x.user = ss[s].user /\ x.inv = run[s].inv
            THEN [x EXCEPT !.qty = run[s].qty] ELSE x : x \in db.cart}]
    /\ run' = [run EXCEPT ![s].pc = "atc_commit"]
    /\ g' = Touch(s)
    /\ UNCHANGED <<disk, cache, ss, adm>>

\* INSERT INTO CART (535); UNIQUE(user_id, inventory_id) makes it raise when
\* the line exists by now, and the except of 541-543 only reports and reruns
AtcInsert(s) ==
    /\ run[s].pc = "atc_insert"
    /\ IF CartRows(db, ss[s].user, run[s].inv) = {}
       THEN /\ db' = [db EXCEPT
                  !.cart = @ \cup {[id |-> db.seqCart + 1, user |-> ss[s].user,
                                    inv |-> run[s].inv, qty |-> run[s].qty]},
                  !.seqCart = @ + 1]
            /\ run' = [run EXCEPT ![s].pc = "atc_commit"]
            /\ g' = Touch(s)
            /\ UNCHANGED cache
       ELSE /\ run' = [run EXCEPT ![s] = IdleRun]
            /\ cache' = CacheFilled(ss[s].user, ss[s].ver)
            /\ UNCHANGED <<db, g>>
    /\ UNCHANGED <<disk, ss, adm>>

\* conn.commit(), cart_version += 1 and the rerun (538-543)
AtcCommit(s) ==
    /\ run[s].pc = "atc_commit"
    /\ disk' = db
    /\ ss' = [ss EXCEPT ![s].ver = @ + 1]
    /\ cache' = CacheFilled(ss[s].user, ss[s].ver + 1)
    /\ run' = [run EXCEPT ![s] = IdleRun]
    /\ g' = Touch(s)
    /\ UNCHANGED <<db, adm>>

\* a Remove button of the payment page (628-629), DELETE FROM CART WHERE id = ?
\* (548) with the cart_item_id of the row on the page
RmDelete(s, r) ==
    /\ OnPaymentForm(s)
    /\ r \in GetUserCart(ss[s].user, ss[s].ver)
    /\ ss[s].ver < MaxVersion
    /\ db' = [db EXCEPT !.cart = {x \in @ : x.id # r.cid}]
    /\ cache' = CacheFilled(ss[s].user, ss[s].ver)
    /\ run' = [run EXCEPT ![s].pc = "rm_commit"]
    /\ g' = Touch(s)
    /\ UNCHANGED <<disk, ss, adm>>

\* conn.commit(), cart_version += 1 and the rerun (549-552)
RmCommit(s) ==
    /\ run[s].pc = "rm_commit"
    /\ disk' = db
    /\ ss' = [ss EXCEPT ![s].ver = @ + 1]
    /\ cache' = CacheFilled(ss[s].user, ss[s].ver + 1)
    /\ run' = [run EXCEPT ![s] = IdleRun]
    /\ g' = Touch(s)
    /\ UNCHANGED <<db, adm>>

\* ------------------------------------------------------------- the admin
Admin == 0      \* the admin's session, for Touch

\* a check that lets an item be sold at its cost
SaveAcceptedAtCost(cost, price) == ~(price < cost)

\* the form's check of line 379
SaveAccepted(cost, price) == ~(price <= cost)

\* new_stock of lines 390-393
AdminNewStock(add, current, quantity) ==
    IF add THEN current + quantity ELSE quantity

\* "Save Inventory Item" (378-393): a price not above the cost is refused;
\* otherwise the size's row is read and the new stock computed.  Every size
\* of the model has its row, so the INSERT of 401 is not reached.
AdmSubmit(i, q, c, p, add) ==
    /\ adm.pc = "idle"
    /\ g.nsave < MaxSaves
    /\ AdminNewStock(add, db.inv[i].stock, q) <= MaxStock
    /\ g' = [g EXCEPT !.nsave = @ + 1]
    /\ adm' = IF SaveAccepted(c, p)
              THEN [pc |-> "write", inv |-> i,
                    stock |-> AdminNewStock(add, db.inv[i].stock, q),
                    cost |-> c, price |-> p,
                    by |-> IF add THEN db.inv[i].by ELSE {}]
              ELSE adm
    /\ UNCHANGED <<db, disk, cache, ss, run>>

\* an inventory save that also re-prices the order lines of the item
AdmWriteReprice ==
    /\ adm.pc = "write"
    /\ db' = [db EXCEPT ![
           "inv"][adm.inv] = [stock |-> adm.stock, cost |-> adm.cost,
                              price |-> adm.price, by |-> adm.by],
           !.items = {IF x.inv = adm.inv
                      THEN [x EXCEPT !.price = adm.price, !.cost = adm.cost]
                      ELSE x : x \in @}]
    /\ adm' = [adm EXCEPT !.pc = "commit"]
    /\ g' = Touch(Admin)
    /\ UNCHANGED <<disk, cache, ss, run>>

\* UPDATE INVENTORY SET quantity_in_stock, manufacturing_cost, selling_price
\* (396-397)
AdmWrite ==
    /\ adm.pc = "write"
    /\ db' = [db EXCEPT ![
           "inv"][adm.inv] = [stock |-> adm.stock, cost |-> adm.cost,
                              price |-> adm.price, by |-> adm.by]]
    /\ adm' = [adm EXCEPT !.pc = "commit"]
    /\ g' = Touch(Admin)
    /\ UNCHANGED <<disk, cache, ss, run>>

\* conn.commit() (405)
AdmCommit ==
    /\ adm.pc = "commit"
    /\ disk' = db
    /\ adm' = InitAdm
    /\ g' = Touch(Admin)
    /\ UNCHANGED <<db, cache, ss, run>>

\* ------------------------------------------------------------- behaviours
\* Sessions and users are interchangeable: session 1 is the one of user u1.
Next ==
    \/ \E s \in Sessions, u \in Users : (s = 1 => u = "u1") /\ Login(s, u)
    \/ \E s \in Sessions : Logout(s)
    \/ \E s \in Sessions : Nav(s)
    \/ \E s \in Sessions : Proceed(s)
    \/ \E s \in Sessions : GoCatalog(s)
    \/ \E s \in Sessions, r \in SpinRates : Spin(s, r)
    \/ \E s \in Sessions, a \in {"", "addr"} : Submit(s, a)
    \/ \E s \in Sessions : RunDelivered(s)
    \/ \E s \in Sessions : CmOrder(s)
    \/ \E s \in Sessions : CmCheck(s)
    \/ \E s \in Sessions : CmItem(s)
    \/ \E s \in Sessions : CmStock(s)
    \/ \E s \in Sessions : CmClear(s)
    \/ \E s \in Sessions : CmCommit1(s)
    \/ \E s \in Sessions : CmCommit2(s)
    \/ \E s \in Sessions : CmDone(s)
    \/ \E s \in Sessions : CmRollback(s)
    \/ \E s \in Sessions : CmFault(s)
    \/ \E s \in Sessions, i \in Items, q \in Qtys : AtcStock(s, i, q)
    \/ \E s \in Sessions : AtcCart(s)
    \/ \E s \in Sessions : AtcUpdate(s)
    \/ \E s \in Sessions : AtcInsert(s)
    \/ \E s \in Sessions : AtcCommit(s)
    \/ \E s \in Sessions, r \in UNION {cache[k] : k \in DOMAIN cache} : RmDelete(s, r)
    \/ \E s \in Sessions : RmCommit(s)
    \/ \E i \in Items, q \in Qtys, c \in Prices, p \in Prices, add \in BOOLEAN :
           AdmSubmit(i, q, c, p, add)
    \/ AdmWrite
    \/ AdmCommit

\* every session, every operation
Spec == Init /\ [][Next]_vars

\* The customers alone: two sessions log in, fill carts, check out and rerun
\* the delivered page, their statements interleaved on the connection.
NextShop ==
    \/ \E s \in Sessions, u \in Users : (s = 1 => u = "u1") /\ Login(s, u)
    \/ \E s \in Sessions : Proceed(s)
    \/ \E s \in Sessions, a \in {"", "addr"} : Submit(s, a)
    \/ \E s \in Sessions : RunDelivered(s)
    \/ \E s \in Sessions : CmOrder(s)
    \/ \E s \in Sessions : CmCheck(s)
    \/ \E s \in Sessions : CmItem(s)
    \/ \E s \in Sessions : CmStock(s)
    \/ \E s \in Sessions : CmClear(s)
    \/ \E s \in Sessions : CmCommit1(s)
    \/ \E s \in Sessions : CmCommit2(s)
    \/ \E s \in Sessions : CmDone(s)
    \/ \E s \in Sessions : CmRollback(s)
    \/ \E s \in Sessions, i \in Items, q \in Qtys : AtcStock(s, i, q)
    \/ \E s \in Sessions : AtcCart(s)
    \/ \E s \in Sessions : AtcUpdate(s)
    \/ \E s \in Sessions : AtcInsert(s)
    \/ \E s \in Sessions : AtcCommit(s)

SpecShop == Init /\ [][NextShop]_vars

\* The customers and the admin on the item that is down to its last unit:
\* two sessions shop for item 1 while the admin saves its stock and prices.
NextStore ==
    \/ \E s \in Sessions, u \in Users : (s = 1 => u = "u1") /\ Login(s, u)
    \/ \E s \in Sessions : Proceed(s)
    \/ \E s \in Sessions : Submit(s, "addr")
    \/ \E s \in Sessions : RunDelivered(s)
    \/ \E s \in Sessions : CmOrder(s)
    \/ \E s \in Sessions : CmCheck(s)
    \/ \E s \in Sessions : CmItem(s)
    \/ \E s \in Sessions : CmStock(s)
    \/ \E s \in Sessions : CmClear(s)
    \/ \E s \in Sessions : CmCommit1(s)
    \/ \E s \in Sessions : CmCommit2(s)
    \/ \E s \in Sessions : CmDone(s)
    \/ \E s \in Sessions : CmRollback(s)
    \/ \E s \in Sessions, q \in Qtys : AtcStock(s, 1, q)
    \/ \E s \in Sessions : AtcCart(s)
    \/ \E s \in Sessions : AtcUpdate(s)
    \/ \E s \in Sessions : AtcInsert(s)
    \/ \E s \in Sessions : AtcCommit(s)
    \/ \E q \in Qtys, c \in Prices, p \in Prices, add \in BOOLEAN :
           AdmSubmit(1, q, c, p, add)
    \/ AdmWrite
    \/ AdmCommit

SpecStore == Init /\ [][NextStore]_vars

\* One customer and the admin: session 1 shops for both items, edits its cart
\* and checks out, with storage faults, while the admin saves inventory.
NextAlone ==
    \/ Login(1, "u1")
    \/ Nav(1)
    \/ Proceed(1)
    \/ GoCatalog(1)
    \/ \E r \in SpinRates : Spin(1, r)
    \/ \E a \in {"", "addr"} : Submit(1, a)
    \/ RunDelivered(1)
    \/ CmOrder(1)
    \/ CmCheck(1)
    \/ CmItem(1)
    \/ CmStock(1)
    \/ CmClear(1)
    \/ CmCommit1(1)
    \/ CmCommit2(1)
    \/ CmDone(1)
    \/ CmRollback(1)
    \/ CmFault(1)
    \/ \E i \in Items, q \in Qtys : AtcStock(1, i, q)
    \/ AtcCart(1)
    \/ AtcUpdate(1)
    \/ AtcInsert(1)
    \/ AtcCommit(1)
    \/ \E r \in UNION {cache[k] : k \in DOMAIN cache} : RmDelete(1, r)
    \/ RmCommit(1)
    \/ \E i \in Items, q \in Qtys, c \in Prices, p \in Prices, add \in BOOLEAN :
           AdmSubmit(i, q, c, p, add)
    \/ AdmWrite
    \/ AdmCommit

SpecAlone == Init /\ [][NextAlone]_vars

\* A restock next to a checkout: session 1 is user u1, the administrator
\* saves 'Add to Current Stock' of one unit for item 1 with its cost and
\* price as they are, and a statement of the commit can fail.
NextRestock ==
    \/ Login(1, "u1")
    \/ Proceed(1)
    \/ Submit(1, "addr")
    \/ RunDelivered(1)
    \/ CmOrder(1)
    \/ CmCheck(1)
    \/ CmItem(1)
    \/ CmStock(1)
    \/ CmClear(1)
    \/ CmCommit1(1)
    \/ CmCommit2(1)
    \/ CmDone(1)
    \/ CmRollback(1)
    \/ CmFault(1)
    \/ \E i \in Items, q \in Qtys : AtcStock(1, i, q)
    \/ AtcCart(1)
    \/ AtcUpdate(1)
    \/ AtcInsert(1)
    \/ AtcCommit(1)
    \/ AdmSubmit(1, 1, InitInv[1].cost, InitInv[1].price, TRUE)
    \/ AdmWrite
    \/ AdmCommit

SpecRestock == Init /\ [][NextRestock]_vars

\* One customer in two browser sessions: both are user u1; session 1 shops,
\* spins and checks out, session 2 only fills the cart.
NextTwin ==
    \/ \E s \in Sessions : Login(s, "u1")
    \/ Proceed(1)
    \/ \E r \in SpinRates : Spin(1, r)
    \/ Submit(1, "addr")
    \/ RunDelivered(1)
    \/ CmOrder(1)
    \/ CmCheck(1)
    \/ CmItem(1)
    \/ CmStock(1)
    \/ CmClear(1)
    \/ CmCommit1(1)
    \/ CmCommit2(1)
    \/ CmDone(1)
    \/ CmRollback(1)
    \/ \E s \in Sessions, i \in Items, q \in Qtys : AtcStock(s, i, q)
    \/ \E s \in Sessions : AtcCart(s)
    \/ \E s \in Sessions : AtcUpdate(s)
    \/ \E s \in Sessions : AtcInsert(s)
    \/ \E s \in Sessions : AtcCommit(s)

SpecTwin == Init /\ [][NextTwin]_vars

\* One browser session used by both customers in turn: log in, shop, spin,
\* check out, log out.
NextSolo ==
    \/ \E u \in Users : Login(1, u)
    \/ Logout(1)
    \/ Nav(1)
    \/ Proceed(1)
    \/ GoCatalog(1)
    \/ \E r \in SpinRates : Spin(1, r)
    \/ \E a \in {"", "addr"} : Submit(1, a)
    \/ RunDelivered(1)
    \/ CmOrder(1)
    \/ CmCheck(1)
    \/ CmItem(1)
    \/ CmStock(1)
    \/ CmClear(1)
    \/ CmCommit1(1)
    \/ CmCommit2(1)
    \/ CmDone(1)
    \/ CmRollback(1)
    \/ \E i \in Items, q \in Qtys : AtcStock(1, i, q)
    \/ AtcCart(1)
    \/ AtcUpdate(1)
    \/ AtcInsert(1)
    \/ AtcCommit(1)

SpecSolo == Init /\ [][NextSolo]_vars

\* ------------------------------------------------------------- claims
InCommit(s) ==
    run[s].pc \in {"cm_order", "cm_check", "cm_item", "cm_stock", "cm_clear",
                   "cm_commit1", "cm_commit2", "cm_done", "cm_rollback"}

RECURSIVE QtySum(_)
QtySum(rows) ==
    IF rows = {} THEN 0
    ELSE LET x == CHOOSE y \in rows : TRUE
         IN  x.qty + QtySum(rows \ {x})

RECURSIVE LinesValue(_)
LinesValue(rows) ==
    IF rows = {} THEN 0
    ELSE LET x == CHOOSE y \in rows : TRUE
         IN  x.qty * x.price + LinesValue(rows \ {x})

Attempts == DOMAIN g.log

\* C1: in every reachable state, whatever the interleaving of checkout
\* commits, add-to-cart operations and admin inventory saves, the
\* quantity_in_stock of every INVENTORY item is >= 0, as the connection sees
\* it and as committed.
C1_NoNegativeStock ==
    \A i \in Items : db.inv[i].stock >= 0 /\ disk.inv[i].stock >= 0

\* two commits of different sessions and an admin save have run, and the last
\* unit is sold
C1_Witness ==
    /\ g.natt = 2 /\ g.nsave = 1
    /\ g.log[1].s # g.log[2].s
    /\ \E a \in Attempts : g.log[a].res = "ok"
    /\ \E i \in Items : disk.inv[i].stock = 0 /\ disk.inv[i].by # {}

\* C2: two commits of one-line carts that both found the last unit of the
\* same item in stock (read quantity_in_stock = 1 for a quantity of 1), with
\* no admin save, end with exactly one success and one stock-check failure.
C2_ExactlyOneWins ==
    \A a, b \in Attempts :
        ( /\ a < b /\ g.nsave = 0
          /\ g.log[a].s # g.log[b].s
          /\ g.log[a].single /\ g.log[b].single
          /\ g.log[a].read1 \cap g.log[b].read1 # {}
          /\ g.log[a].res # "running" /\ g.log[b].res # "running" )
        => {g.log[a].res, g.log[b].res} = {"ok", "nostock"}

\* C3: a commit attempt that ended with the stock-check failure has left no
\* ORDERS row, no ORDER_ITEMS row and no stock decrement of its own in the
\* committed database.
C3_FailedLeavesNothing ==
    \A a \in Attempts :
        g.log[a].res = "nostock" =>
            /\ \A o \in disk.orders : o.att # a
            /\ \A x \in disk.items : x.att # a
            /\ \A i \in Items : a \notin disk.inv[i].by

\* C4: with no admin save and no commit in progress, the initial stock of
\* every item less its committed stock is the sum of the quantities of the
\* committed ORDER_ITEMS rows of that item.
C4_StockConserved ==
    (g.nsave = 0 /\ \A s \in Sessions : ~InCommit(s)) =>
        \A i \in Items :
            InitInv[i].stock - disk.inv[i].stock
                = QtySum({x \in disk.items : x.inv = i})

\* C5: the total_amount of every committed order (of a commit that succeeded
\* and that no other process disturbed) is (1 - discount_rate) times the sum
\* of quantity * unit_selling_price over its ORDER_ITEMS rows; totals are in
\* hundredths, rates in percent.
C5_TotalReconciles ==
    \A o \in disk.orders :
        (g.log[o.att].res = "ok" /\ g.log[o.att].alone) =>
            o.total = (100 - o.rate) * LinesValue({x \in disk.items : x.order = o.id})

\* session t's commit has decremented item i, not yet all of its lines, and
\* the connection shows that stock
PartlyApplied(t, i) ==
    /\ run[t].pc \in {"cm_check", "cm_item", "cm_stock"}
    /\ run[t].todo # {} /\ run[t].todo # run[t].df
    /\ i \in {r.inv : r \in run[t].df \ run[t].todo}
    /\ run[t].att \in db.inv[i].by

\* this step is session s reading the stock of item i: the stock check of
\* add_to_cart (509) or of the commit (695)
ReadsStock(s, i) ==
    \/ run[s].pc = "idle" /\ run'[s].pc = "atc_cart" /\ run'[s].inv = i
    \/ run[s].pc = "cm_check" /\ run'[s].pc # "cm_check" /\ CurrentLine(s).inv = i

\* C6: no session reads the stock of an item while another session's commit
\* has applied its decrement of that item but not yet all of its lines.
C6_NoPartialRead ==
    [][\A s, t \in Sessions, i \in Items :
          (s # t /\ ReadsStock(s, i)) => ~PartlyApplied(t, i)]_vars

\* C7: a commit attempt ended by a storage fault has left no ORDERS row, no
\* ORDER_ITEMS row, no stock decrement and no CART deletion of its own in the
\* committed database.
C7_FaultLeavesNothing ==
    \A a \in Attempts :
        g.log[a].res = "fault" =>
            /\ \A o \in disk.orders : o.att # a
            /\ \A x \in disk.items : x.att # a
            /\ \A i \in Items : a \notin disk.inv[i].by
            /\ \A d \in disk.gone : d[1] # a

\* C8: no two committed ORDERS rows written by successful commits belong to
\* the same payment-form submission.
C8_OneOrderPerSubmission ==
    \A o1, o2 \in disk.orders :
        ( /\ o1.sub = o2.sub
          /\ g.log[o1.att].res = "ok" /\ g.log[o2.att].res = "ok" )
        => o1 = o2

\* C9: when a commit that ran alone has committed (line 712 done), the
\* committed database holds exactly one ORDER_ITEMS row of it per line of
\* its cart, with the line's inventory id and quantity and the item's
\* selling_price and manufacturing_cost of INVENTORY, and every line's item
\* has its stock decremented by the line's quantity.
C9_CommitWritesLines ==
    \A s \in Sessions :
        (run[s].pc = "cm_done" /\ g.log[run[s].att].alone) =>
            LET mine == {x \in disk.items : x.att = run[s].att}
            IN  /\ Cardinality(mine) = Cardinality(run[s].df)
                /\ \A r \in run[s].df :
                     /\ \E x \in mine :
                          /\ x.order = run[s].oid /\ x.inv = r.inv /\ x.qty = r.qty
                          /\ x.price = disk.inv[r.inv].price
                          /\ x.cost = disk.inv[r.inv].cost
                     /\ disk.inv[r.inv].stock = run[s].stock0[r.inv] - r.qty
                /\ \A i \in Items \ {r.inv : r \in run[s].df} :
                     disk.inv[i].stock = run[s].stock0[i]

\* a two-line cart committed alone after the admin changed a price
C9_Witness ==
    \E s \in Sessions :
        /\ run[s].pc = "cm_done" /\ g.log[run[s].att].alone
        /\ Cardinality(run[s].df) = 2
        /\ \E i \in Items : disk.inv[i].price # InitInv[i].price

\* C10: committed ORDERS and ORDER_ITEMS rows are never changed or deleted
\* by any later step.
C10_LedgerAppendOnly ==
    [][disk.orders \subseteq disk'.orders /\ disk.items \subseteq disk'.items]_vars

\* an order line is committed and the admin has since changed the item's price
C10_Witness ==
    \E x \in disk.items :
        /\ g.log[x.att].res = "ok"
        /\ g.nsave = 1 /\ adm.pc = "idle"
        /\ disk.inv[x.inv].price # x.price

\* C11: a commit attempt that failed (stock check or storage fault) has
\* removed no CART row: none of the rows it deleted is missing from the
\* committed database or from what the connection shows.
C11_FailedKeepsCart ==
    \A a \in Attempts :
        g.log[a].res \in {"nostock", "fault"} =>
            \A d \in disk.gone \cup db.gone : d[1] # a

C13_CartChangeDropsDiscount ==
    [][\A s \in Sessions :
          (run[s].pc = "rm_commit" /\ run'[s].pc = "idle" /\ ss[s].rate > 0)
          => (ss'[s].rate = 0 /\ ss'[s].coupon = "None")]_vars

\* C14: a winning draw of the wheel is only made when no draw was made
\* before in the checkout attempt: coupon_code goes to a coupon from None
\* (set by Proceed to Checkout), never from "NONE" (set by a 0% draw).
C14_SpinOnce ==
    [][\A s \in Sessions :
          (ss'[s].coupon = "SPIN" /\ ss[s].coupon # "SPIN")
          => ss[s].coupon = "None"]_vars

\* C15: in every reachable state the discount_rate of every session and of
\* every ORDERS row, committed or pending, is at least 0 and less than 1
\* (rates are in percent: less than 100).
C15_RateInRange ==
    /\ \A s \in Sessions : ss[s].rate >= 0 /\ ss[s].rate < 100
    /\ \A o \in disk.orders \cup db.orders : o.rate >= 0 /\ o.rate < 100

\* an order with the wheel's highest discount is committed
C15_Witness ==
    \E o \in disk.orders :
        /\ o.rate = 20 /\ g.log[o.att].res = "ok"
        /\ o.total = 80 * LinesValue({x \in disk.items : x.order = o.id})

\* this step is session s entering the payment form by Proceed to Checkout
EntersCheckout(s) == ss[s].stage = "catalog" /\ ss'[s].stage = "payment"

\* this step is session s inserting its ORDERS row (684-687)
InsertsOrder(s) == run[s].pc = "cm_order" /\ run'[s].pc = "cm_check"

\* C16: a session enters the payment form, and a commit inserts an ORDERS
\* row, only while the CART table holds at least one row of the customer.
C16_NoCheckoutOfEmptyCart ==
    [][\A s \in Sessions :
          (EntersCheckout(s) \/ InsertsOrder(s))
          => CartQuery(db, ss[s].user) # {}]_vars

\* C17: a session in the commit stage (checkout_substage 'delivered') holds a
\* non-empty shipping address and every ORDERS row, committed or pending,
\* has one; the commit stage is entered only from the payment form, by a
\* step that stores a non-empty address.
C17_AddressGiven ==
    /\ [](/\ \A s \in Sessions : ss[s].sub = "delivered" => ss[s].addr # ""
          /\ \A o \in disk.orders \cup db.orders : o.addr # "")
    /\ [][\A s \in Sessions :
             (ss'[s].sub = "delivered" /\ ss[s].sub # "delivered")
             => (OnPaymentForm(s) /\ ss'[s].addr # "")]_vars

\* an order is committed with the address the session submitted
C17_Witness ==
    \E o \in disk.orders :
        /\ o.addr = "addr" /\ g.log[o.att].res = "ok"
        /\ ss[g.log[o.att].s].sub = "delivered"
        /\ ss[g.log[o.att].s].addr = o.addr

\* the latest commit attempt of session s failed
LastFailed(s) ==
    \E a \in Attempts :
        /\ g.log[a].s = s /\ g.log[a].res \in {"nostock", "fault"}
        /\ \A b \in Attempts : b > a => g.log[b].s # s

\* this step is session s starting a commit attempt (672-681)
StartsCommit(s) == run[s].pc \in {"idle", "rerun"} /\ run'[s].pc = "cm_order"

\* C18: after a failed commit attempt, a session starts another attempt only
\* in the script run that a submission of the payment form asked for.
C18_NoRetryWithoutSubmit ==
    [][\A s \in Sessions :
          (StartsCommit(s) /\ LastFailed(s)) => run[s].pc = "rerun"]_vars

\* C19: a commit attempt is reported as failed by a storage fault (the lock
\* timeout of the connection is one) only after it was tried a second time
\* and the second try met the fault too.
C19_RetriedOnce ==
    \A a \in Attempts :
        g.log[a].res = "fault" =>
            g.nfault >= 2 * Cardinality({b \in Attempts : g.log[b].res = "fault"})

\* C20: in every reachable state every INVENTORY item has manufacturing_cost
\* below selling_price, as the connection sees it and as committed.
C20_CostBelowPrice ==
    \A i \in Items :
        /\ db.inv[i].cost < db.inv[i].price
        /\ disk.inv[i].cost < disk.inv[i].price

\* an admin save with a new cost and a new price is committed
C20_Witness ==
    /\ g.nsave = 1 /\ adm.pc = "idle"
    /\ \E i \in Items :
           /\ disk.inv[i].cost # InitInv[i].cost
           /\ disk.inv[i].price # InitInv[i].price

\* the lines of a cart as pairs of inventory id and quantity
LinesOf(rows) == {<<r.inv, r.qty>> : r \in rows}

\* C21: the cart a commit attempt starts with (cart_df_for_order, whose
\* lines become the ORDER_ITEMS rows) has the inventory ids and quantities
\* of the customer's rows committed in the CART table at that moment.
C21_OrderedCartIsStoredCart ==
    [][\A s \in Sessions :
          StartsCommit(s)
          => LinesOf(run'[s].df) = LinesOf({x \in disk.cart : x.user = ss[s].user})]_vars

\* no transaction is in progress: no script is between its first statement
\* and its commit or rollback, and nothing is pending on the connection
Quiet ==
    /\ db = disk
    /\ adm.pc = "idle"
    /\ \A s \in Sessions : run[s].pc \in {"idle", "rerun"}

\* C22: whenever no transaction is in progress, every ORDER_ITEMS row
\* references an ORDERS row that exists and was written by the same commit
\* attempt.
C22_LinesHaveTheirOrder ==
    Quiet =>
        \A x \in disk.items :
            \E o \in disk.orders : o.id = x.order /\ o.att = x.att

\* C23: in every reachable state a session's discount_rate is above 0
\* exactly when its coupon_code is neither None nor "NONE".
C23_RateIffCoupon ==
    \A s \in Sessions :
        (ss[s].rate > 0) <=> (ss[s].coupon \notin {"None", "NONE"})

\* a customer holds a coupon won in a session in which another customer's
\* discounted order was committed before
C23_Witness ==
    \E s \in Sessions, o \in disk.orders :
        /\ o.rate > 0 /\ g.log[o.att].res = "ok" /\ g.log[o.att].s = s
        /\ ss[s].user # o.user
        /\ ss[s].rate > 0 /\ ss[s].coupon = "SPIN"

\* C24: every entry into checkout leaves the session on the payment form
\* with coupon_code None and discount_rate 0, and the order_total a commit
\* stores is the total of the cart it orders at the session's discount_rate,
\* not one left in the session by an earlier checkout or attempt.
C24_FreshCheckout ==
    [][\A s \in Sessions :
          /\ EntersCheckout(s)
             => ( /\ ss'[s].sub = "payment_form"
                  /\ ss'[s].coupon = "None" /\ ss'[s].rate = 0 )
          /\ InsertsOrder(s)
             => ss[s].total = OrderTotal(run[s].df, ss[s].rate)]_vars

\* C25: the step of add_to_cart that writes the cart line (UPDATE or INSERT)
\* leaves the line of that user and item with the quantity the call computed
\* (old + q, or q), which is at most the stock the call read; the step that
\* refuses the quantity changes neither CART nor the session.
C25_AddWithinStock ==
    [][\A s \in Sessions :
          /\ (run[s].pc \in {"atc_update", "atc_insert"} /\ run'[s].pc = "atc_commit")
             => \A x \in CartRows(db', ss[s].user, run[s].inv) :
                    x.qty = run[s].qty /\ x.qty <= run[s].info.stock
          /\ (run[s].pc = "atc_cart" /\ run'[s].pc = "idle")
             => (db' = db /\ disk' = disk /\ ss' = ss)]_vars

\* a cart line was raised to two units, and a third was refused
C25_Witness ==
    \E x \in disk.cart, s \in Sessions :
        /\ x.qty = 2 /\ x.user = ss[s].user
        /\ db.inv[x.inv].stock = 2
        /\ run[s].pc = "atc_cart" /\ run[s].inv = x.inv

\* C26: when the commit of line 712 completes (the attempt goes on to report
\* success), no CART row the commit ordered from is left in the stored
\* database; and the DELETE of clear_user_cart leaves the CART rows of every
\* other user as they were.
C26_CommitEmptiesCart ==
    [][\A s \in Sessions :
          /\ (run[s].pc = "cm_commit2" /\ run'[s].pc = "cm_done")
             => \A r \in run[s].df : \A x \in disk'.cart : x.id # r.cid
          /\ (run[s].pc = "cm_clear" /\ run'[s].pc = "cm_commit1")
             => {x \in db'.cart : x.user # ss[s].user}
                    = {x \in db.cart : x.user # ss[s].user}]_vars

\* C27: once one 'Add to Current Stock' save of one unit for item 1 and one
\* checkout attempt have both finished and nothing is pending, the stored
\* stock of item 1 is the initial stock plus the unit added, minus the units
\* of item 1 the attempt ordered when it succeeded, and minus nothing when it
\* failed.
C27_RestockAndOrderAddUp ==
    (Quiet /\ g.nsave = 1 /\ g.natt = 1 /\ g.log[1].res # "running")
        => disk.inv[1].stock =
               InitInv[1].stock + 1
               - (IF g.log[1].res = "ok"
                  THEN QtySum({x \in disk.items : x.att = 1 /\ x.inv = 1})
                  ELSE 0)

====
